---------------------------- MODULE Spec2Model ----------------------------
(***************************************************************************)
(* Screen Time Management: the usage_log table, the store functions of     *)
(* database.py, the web form of app.py and the command-line entry script   *)
(* add_entry.py.                                                           *)
(*                                                                         *)
(* Hours are counted in hundredths of an hour (3.5 h is 350), so that the  *)
(* sums of the SQL aggregates are exact integers; every value of           *)
(* HoursDomain is exactly representable in the FLOAT column.  A calendar   *)
(* date is the day of November 2025 (1 is 2025-11-01).  An optional value  *)
(* (SQL NULL, Python None) is a sequence of length 0 or 1.                 *)
(***************************************************************************)
EXTENDS Integers, Sequences, FiniteSets, TLC

\* ------------------------------------------------------------------ bounds
\* number of AUTO_INCREMENT values the table hands out
MaxId == 3
\* the calendar days 2025-11-01 .. 2025-11-MaxDate
MaxDate == 2

Dates == 1..MaxDate
Categories == {"", "Study", "Gaming"}
HoursDomain == {0 - 100, 0, 200, 350, 400, 2500}
RemarksDomain == {""}
Ids == 1..(MaxId + 1)

None == <<>>
Some(v) == <<v>>

VARIABLES
    usage_log,       \* the rows of table usage_log
    auto_increment,  \* the next entry_id of the AUTO_INCREMENT column
    result,          \* what the last operation gave back to its caller
    deleted,         \* history: how often delete_entry returned True, per id
    isolation,       \* the transaction isolation the server gives a connection
    statistics       \* the get_statistics call in progress, query by query

vars == <<usage_log, auto_increment, result, deleted, isolation, statistics>>

\* ------------------------------------------------------------- the table
Row(id, d, c, h, r) ==
    [entry_id |-> id, entry_date |-> d, category |-> c, hours_spent |-> h, remarks |-> r]

\* the INSERT without conn.commit(): the row is gone when the connection closes
InsertIntoUncommitted(table, id, d, c, h, r) == table

\* the INSERT with the id taken as MAX(entry_id) + 1 instead of the counter
InsertIntoMaxPlusOne(table, id, d, c, h, r) ==
    table \cup {Row(IF table = {} THEN 1
                    ELSE 1 + (CHOOSE m \in {x.entry_id : x \in table} :
                                \A x \in table : m >= x.entry_id),
                    d, c, h, r)}

\* the INSERT as an upsert: a row of the same date and category gets the hours
InsertIntoUpsert(table, id, d, c, h, r) ==
    IF \E x \in table : x.entry_date = d /\ x.category = c
    THEN {IF x.entry_date = d /\ x.category = c
          THEN [x EXCEPT !.hours_spent = @ + h] ELSE x : x \in table}
    ELSE table \cup {Row(id, d, c, h, r)}

\* INSERT INTO usage_log (entry_date, category, hours_spent, remarks) VALUES (...)
InsertInto(table, id, d, c, h, r) == table \cup {Row(id, d, c, h, r)}

\* the DELETE with WHERE entry_id <= %s
DeleteFromUpTo(table, id) == {row \in table : row.entry_id > id}

\* DELETE FROM usage_log WHERE entry_id = %s
DeleteFrom(table, id) == {row \in table : row.entry_id # id}

\* cursor.rowcount of the DELETE statement
RowCount(table, id) == Cardinality({row \in table : row.entry_id = id})

\* ------------------------------------------------------- SQL aggregates
RECURSIVE SUM(_)
SUM(rows) ==
    IF rows = {} THEN 0
    ELSE LET row == CHOOSE x \in rows : TRUE
         IN  row.hours_spent + SUM(rows \ {row})

RECURSIVE SumTotals(_)
SumTotals(groups) ==
    IF groups = {} THEN 0
    ELSE LET g == CHOOSE x \in groups : TRUE
         IN  g.total_hours + SumTotals(groups \ {g})

\* every sequence that lists the elements of S once each, in an order that
\* InOrder allows for each neighbouring pair (rows that tie come in any order)
OrderBy(S, InOrder(_, _)) ==
    {f \in [1..Cardinality(S) -> S] :
        /\ \A i, j \in 1..Cardinality(S) : i # j => f[i] # f[j]
        /\ \A i \in 1..(Cardinality(S) - 1) : InOrder(f[i], f[i + 1])}

\* the daily query with GROUP BY entry_date, category
GroupByDateAndCategory(table) ==
    {[entry_date |-> x.entry_date,
      total_hours |-> SUM({row \in table : /\ row.entry_date = x.entry_date
                                           /\ row.category = x.category})] :
        x \in table}

\* SELECT entry_date, SUM(hours_spent) as total_hours ... GROUP BY entry_date
GroupByDate(table) ==
    {[entry_date |-> d,
      total_hours |-> SUM({row \in table : row.entry_date = d})] :
        d \in {row.entry_date : row \in table}}

\* SELECT category, SUM(hours_spent) as total_hours ... GROUP BY category
GroupByCategory(table) ==
    {[category |-> c,
      total_hours |-> SUM({row \in table : row.category = c})] :
        c \in {row.category : row \in table}}

\* ----------------------------------------------------------- the queries
\* ORDER BY entry_date DESC, entry_id DESC
AllEntriesOrder(a, b) ==
    \/ a.entry_date > b.entry_date
    \/ a.entry_date = b.entry_date /\ a.entry_id > b.entry_id

get_all_entries(table) ==
    CHOOSE df \in OrderBy(table, AllEntriesOrder) : TRUE

\* the range with its end left out: entry_date >= %s AND entry_date < %s
BetweenHalfOpen(d, start_date, end_date) == start_date <= d /\ d < end_date

\* WHERE entry_date BETWEEN %s AND %s
Between(d, start_date, end_date) == start_date <= d /\ d <= end_date

\* ORDER BY entry_date DESC
DateDescOrder(a, b) == a.entry_date >= b.entry_date

\* the frames the query may return: rows of one date come in any order
get_date_range_entries(table, start_date, end_date) ==
    OrderBy({row \in table : Between(row.entry_date, start_date, end_date)},
            DateDescOrder)

\* ORDER BY entry_date
DateAscOrder(a, b) == a.entry_date <= b.entry_date

get_daily_totals(table) ==
    CHOOSE df \in OrderBy(GroupByDate(table), DateAscOrder) : TRUE

\* ORDER BY total_hours, ascending
TotalAscOrder(a, b) == a.total_hours <= b.total_hours

\* ORDER BY total_hours DESC
TotalDescOrder(a, b) == a.total_hours >= b.total_hours

\* the frames the query may return: categories of one total come in any order
get_category_totals(table) == OrderBy(GroupByCategory(table), TotalDescOrder)

\* a quotient, kept exact: num / den
Ratio(n, d) == [num |-> n, den |-> d]

\* the average over the rows: SELECT AVG(hours_spent) FROM usage_log
AvgHoursSpent(table) ==
    IF table = {} THEN None
    ELSE Some(Ratio(SUM(table), Cardinality(table)))

\* SELECT AVG(daily_total) FROM (SELECT SUM(hours_spent) ... GROUP BY entry_date)
AvgDailyTotal(table) ==
    IF table = {} THEN None
    ELSE Some(Ratio(SumTotals(GroupByDate(table)), Cardinality(GroupByDate(table))))

\* SELECT MIN(entry_date), MAX(entry_date)
MinDate(table) ==
    IF table = {} THEN None
    ELSE Some(CHOOSE d \in {row.entry_date : row \in table} :
                \A row \in table : d <= row.entry_date)

MaxDateOf(table) ==
    IF table = {} THEN None
    ELSE Some(CHOOSE d \in {row.entry_date : row \in table} :
                \A row \in table : d >= row.entry_date)

\* cursor.fetchone()[...] or 0: NULL and zero both give 0
OrZero(x) == IF x = None \/ x = Some(0) THEN 0 ELSE x[1]

\* SELECT SUM(DISTINCT hours_spent) as total FROM usage_log
SumDistinctHours(table) ==
    IF table = {} THEN None
    ELSE Some(SUM({Row(0, 0, "", h, "") : h \in {row.hours_spent : row \in table}}))

\* SELECT SUM(hours_spent) as total FROM usage_log: NULL on an empty table
SumHoursSpent(table) == IF table = {} THEN None ELSE Some(SUM(table))

\* SELECT COUNT(DISTINCT entry_date) as count FROM usage_log
CountDistinctDates(table) == Cardinality({row.entry_date : row \in table})

\* SELECT COUNT(*) as count FROM usage_log
CountRows(table) == Cardinality(table)

get_statistics(table) ==
    LET total     == OrZero(SumHoursSpent(table))
        count     == CountRows(table)
        avg       == AvgDailyTotal(table)
        avg_daily == IF avg = None \/ avg[1].num = 0 THEN Ratio(0, 1) ELSE avg[1]
    IN  [total_hours     |-> total,
         total_entries   |-> count,
         avg_daily_hours |-> avg_daily,
         first_date      |-> MinDate(table),
         last_date       |-> MaxDateOf(table)]

\* app.py, show_dashboard: if stats['first_date'] and stats['last_date']:
\* days_tracked = (stats['last_date'] - stats['first_date']).days + 1
DaysTracked(stats) ==
    IF stats.first_date # None /\ stats.last_date # None
    THEN Some(stats.last_date[1] - stats.first_date[1] + 1)
    ELSE None

\* ------------------------------------------------------ what a call gave
\* op is the function that answered.  outcome: "ok" (True, ...), "not_found" (False, "Entry not found."),
\* "error" (a mysql Error caught: (False, ...) or a printed message),
\* "raised" (an exception left the function), "rejected" (the input was
\* refused before any statement was sent).  id is the entry_id the statement
\* touched (cursor.lastrowid of an INSERT, the argument of a DELETE); date,
\* category and hours are the values the caller passed, as far as they were read.
Outcome(caller, what, id, d, c, h) ==
    [op |-> caller, outcome |-> what, id |-> id, date |-> d, category |-> c, hours |-> h]

\* ------------------------------------------------- database.py: add_entry
\* no check of the arguments: the INSERT is sent as it is
add_entry(entry_date, category, hours_spent, remarks, connect_ok) ==
    IF ~connect_ok
    THEN \* get_connection raises Exception, which `except Error` does not catch
         /\ result' = Outcome("add_entry", "raised", None, None, None, None)
         /\ UNCHANGED <<usage_log, auto_increment, deleted>>
    ELSE /\ usage_log' = InsertInto(usage_log, auto_increment, entry_date, category,
                                    hours_spent, remarks)
         /\ auto_increment' = auto_increment + 1
         /\ result' = Outcome("add_entry", "ok", Some(auto_increment), Some(entry_date),
                              Some(category), Some(hours_spent))
         /\ UNCHANGED deleted

AddEntry ==
    /\ auto_increment <= MaxId
    /\ \E entry_date \in Dates, category \in Categories, hours_spent \in HoursDomain,
          remarks \in RemarksDomain, connect_ok \in BOOLEAN :
            add_entry(entry_date, category, hours_spent, remarks, connect_ok)

\* ---------------------------------------------- database.py: delete_entry
\* the test written as affected >= 0
DeleteOutcomeAlways(affected) == IF affected >= 0 THEN "ok" ELSE "not_found"

\* if affected > 0: return True ... else: return False, "Entry not found."
DeleteOutcome(affected) == IF affected > 0 THEN "ok" ELSE "not_found"

delete_entry(entry_id, connect_ok) ==
    IF ~connect_ok
    THEN /\ result' = Outcome("delete_entry", "raised", None, None, None, None)
         /\ UNCHANGED <<usage_log, auto_increment, deleted>>
    ELSE LET affected == RowCount(usage_log, entry_id)
         IN  /\ usage_log' = DeleteFrom(usage_log, entry_id)
             /\ result' = Outcome("delete_entry", DeleteOutcome(affected), Some(entry_id),
                                  None, None, None)
             /\ deleted' = IF DeleteOutcome(affected) = "ok"
                           THEN [deleted EXCEPT ![entry_id] = @ + 1]
                           ELSE deleted
             /\ UNCHANGED auto_increment

DeleteEntry ==
    \E entry_id \in Ids, connect_ok \in BOOLEAN :
        delete_entry(entry_id, connect_ok)

\* ------------------------------------------- database.py: the read calls
\* a read call returns its frame or dictionary, or raises: the Exception of
\* get_connection, or the mysql Error of the query wrapped in an Exception
read_call(function, connect_ok) ==
    /\ result' = Outcome(function, IF connect_ok THEN "ok" ELSE "raised",
                         None, None, None, None)
    /\ UNCHANGED <<usage_log, auto_increment, deleted>>

GetAllEntries == \E connect_ok \in BOOLEAN : read_call("get_all_entries", connect_ok)

GetDateRangeEntries ==
    \E connect_ok \in BOOLEAN : read_call("get_date_range_entries", connect_ok)

GetDailyTotals == \E connect_ok \in BOOLEAN : read_call("get_daily_totals", connect_ok)

GetCategoryTotals ==
    \E connect_ok \in BOOLEAN : read_call("get_category_totals", connect_ok)

GetStatistics == \E connect_ok \in BOOLEAN : read_call("get_statistics", connect_ok)

\* ------------------------------- database.py: get_statistics, query by query
\* get_statistics sends four SELECTs over one connection. The connection is
\* opened with the connector's default autocommit = False and the code sets no
\* isolation level, so the four statements are one transaction whose reads
\* are as the server is configured: under REPEATABLE READ (the default of
\* InnoDB) all read the snapshot of the first read, under READ COMMITTED (or a
\* table without transactions) each reads the table as it is.
IsolationLevels == {"REPEATABLE READ", "READ COMMITTED"}

\* no call in progress
NoCall ==
    [pc |-> "idle", snapshot |-> None,
     total |-> None, count |-> None, avg_daily |-> None, date_range |-> None]

\* every query reads the table as it is
ViewLive(table) == table

\* the table a query of the call reads
View(table) ==
    IF isolation = "REPEATABLE READ" /\ statistics.snapshot # None
    THEN statistics.snapshot[1]
    ELSE table

\* the first read of the transaction fixes the snapshot under REPEATABLE READ
SnapshotAfterRead(table) ==
    IF isolation = "REPEATABLE READ" /\ statistics.snapshot = None
    THEN Some(table)
    ELSE statistics.snapshot

\* conn = get_connection(); cursor = conn.cursor(dictionary=True)
StatisticsConnect ==
    /\ statistics.pc = "idle"
    /\ \E connect_ok \in BOOLEAN :
          IF connect_ok
          THEN /\ statistics' = [NoCall EXCEPT !.pc = "connected"]
               /\ UNCHANGED result
          ELSE /\ result' = Outcome("get_statistics", "raised", None, None, None, None)
               /\ UNCHANGED statistics
    /\ UNCHANGED <<usage_log, auto_increment, deleted, isolation>>

\* SELECT SUM(hours_spent) as total FROM usage_log; total = ... or 0
StatisticsTotal ==
    /\ statistics.pc = "connected"
    /\ statistics' = [statistics EXCEPT
                        !.pc = "total",
                        !.snapshot = SnapshotAfterRead(usage_log),
                        !.total = Some(get_statistics(View(usage_log)).total_hours)]
    /\ UNCHANGED <<usage_log, auto_increment, result, deleted, isolation>>

\* SELECT COUNT(*) as count FROM usage_log
StatisticsCount ==
    /\ statistics.pc = "total"
    /\ statistics' = [statistics EXCEPT
                        !.pc = "count",
                        !.count = Some(get_statistics(View(usage_log)).total_entries)]
    /\ UNCHANGED <<usage_log, auto_increment, result, deleted, isolation>>

\* SELECT AVG(daily_total) as avg_daily FROM (... GROUP BY entry_date)
StatisticsAvgDaily ==
    /\ statistics.pc = "count"
    /\ statistics' = [statistics EXCEPT
                        !.pc = "avg_daily",
                        !.avg_daily = Some(get_statistics(View(usage_log)).avg_daily_hours)]
    /\ UNCHANGED <<usage_log, auto_increment, result, deleted, isolation>>

\* SELECT MIN(entry_date) as first_date, MAX(entry_date) as last_date
StatisticsDateRange ==
    /\ statistics.pc = "avg_daily"
    /\ statistics' = [statistics EXCEPT
                        !.pc = "date_range",
                        !.date_range = Some(<<get_statistics(View(usage_log)).first_date,
                                              get_statistics(View(usage_log)).last_date>>)]
    /\ UNCHANGED <<usage_log, auto_increment, result, deleted, isolation>>

\* the dictionary the call is about to return
Returned(call) ==
    [total_hours     |-> call.total[1],
     total_entries   |-> call.count[1],
     avg_daily_hours |-> call.avg_daily[1],
     first_date      |-> call.date_range[1][1],
     last_date       |-> call.date_range[1][2]]

\* cursor.close(); conn.close(); return {...}
StatisticsReturn ==
    /\ statistics.pc = "date_range"
    /\ result' = Outcome("get_statistics", "ok", None, None, None, None)
    /\ statistics' = NoCall
    /\ UNCHANGED <<usage_log, auto_increment, deleted, isolation>>

\* a step of a program that takes no part in a get_statistics call
NoStatistics == UNCHANGED <<isolation, statistics>>

\* a step of another client, at any point of a get_statistics call
OtherClient == UNCHANGED <<isolation, statistics>>

\* the hours the other client adds
OtherClientHours == {200, 350}

\* another client's add_entry(entry_date, "Study", hours_spent)
OtherClientAdd ==
    /\ auto_increment <= MaxId
    /\ \E entry_date \in Dates, hours_spent \in OtherClientHours, connect_ok \in BOOLEAN :
          add_entry(entry_date, "Study", hours_spent, "", connect_ok)
    /\ OtherClient

\* another client's delete_entry(entry_id)
OtherClientDelete ==
    /\ \E entry_id \in Ids, connect_ok \in BOOLEAN : delete_entry(entry_id, connect_ok)
    /\ OtherClient

\* ------------------------------------------------ app.py: show_add_entry
\* st.selectbox("Category", options=[...])
CategoryOptions ==
    {"Study", "Work", "Social Media", "Entertainment", "Gaming", "Reading",
     "Exercise", "Other"}

\* st.number_input("Hours Spent", min_value=0.0, max_value=24.0, ...)
NumberInputHours == {h \in HoursDomain : 0 <= h /\ h <= 24 * 100}

\* if hours_spent <= 0: st.error(...)
FormRefuses(hours_spent) == hours_spent <= 0

ShowAddEntry ==
    /\ auto_increment <= MaxId
    /\ \E entry_date \in Dates, category \in CategoryOptions \cap Categories,
          hours_spent \in NumberInputHours, remarks \in RemarksDomain,
          connect_ok \in BOOLEAN :
            IF FormRefuses(hours_spent)
            THEN /\ result' = Outcome("show_add_entry", "rejected", None, None,
                                      Some(category), Some(hours_spent))
                 /\ UNCHANGED <<usage_log, auto_increment, deleted>>
            ELSE add_entry(entry_date, category, hours_spent, remarks, connect_ok)

\* ---------------------------------------------- app.py: show_view_records
\* the Delete button is drawn only under a table that is not empty
ShowViewRecordsDelete ==
    \E show_all \in BOOLEAN, start_date \in Dates, end_date \in Dates,
       entry_id \in Ids, connect_ok \in BOOLEAN :
        LET shown == IF show_all THEN usage_log
                     ELSE {row \in usage_log :
                             Between(row.entry_date, start_date, end_date)}
        IN  /\ shown # {}
            /\ delete_entry(entry_id, connect_ok)

\* ------------------------------------------------ add_entry.py: the inputs
\* A line typed at a prompt is a sequence of characters; a category is typed
\* as one word, which stands for its characters.
DigitChars == <<"0", "1", "2", "3", "4", "5", "6", "7", "8", "9">>
\* the line "2025-11-0d"
DateLine(d) == <<"2", "0", "2", "5", "-", "1", "1", "-", "0", DigitChars[d + 1]>>
DateInputs == {<<>>, <<"1", "1", "/", "1">>} \cup {DateLine(d) : d \in 0..MaxDate}
CategoryInputs == {<<" ">>, <<"Study">>, <<" ", "Gaming", " ">>}
HoursInputs ==
    {<<"0">>, <<"2">>, <<"3", ".", "5">>, <<" ", "4">>, <<"2", "5">>, <<"-", "1">>,
     <<"n", "a", "n">>, <<"x">>}

\* str.strip()
RECURSIVE strip(_)
strip(s) ==
    IF s = <<>> THEN s
    ELSE IF Head(s) = " " THEN strip(Tail(s))
    ELSE IF s[Len(s)] = " " THEN strip(SubSeq(s, 1, Len(s) - 1))
    ELSE s

\* the word a stripped category line holds
Word(s) == IF s = <<>> THEN "" ELSE s[1]

IsDigits(s) == \A i \in 1..Len(s) : \E n \in 1..10 : DigitChars[n] = s[i]
DigitValue(ch) == (CHOOSE n \in 1..10 : DigitChars[n] = ch) - 1

RECURSIVE IntOf(_)
IntOf(s) ==
    IF s = <<>> THEN 0
    ELSE IntOf(SubSeq(s, 1, Len(s) - 1)) * 10 + DigitValue(s[Len(s)])

\* datetime.strptime(date_str, "%Y-%m-%d").date(): None stands for ValueError.
\* %Y takes four digits, %m and %d one or two; the lines typed here are days
\* of November 2025 or malformed.
strptime(date_str) ==
    LET dashes == {i \in 1..Len(date_str) : date_str[i] = "-"}
    IN  IF Cardinality(dashes) # 2 THEN None
        ELSE LET i == CHOOSE k \in dashes : \A l \in dashes : k <= l
                 j == CHOOSE k \in dashes : \A l \in dashes : k >= l
                 y == SubSeq(date_str, 1, i - 1)
                 m == SubSeq(date_str, i + 1, j - 1)
                 d == SubSeq(date_str, j + 1, Len(date_str))
             IN  IF /\ IsDigits(y) /\ Len(y) = 4 /\ IntOf(y) = 2025
                    /\ IsDigits(m) /\ Len(m) \in 1..2 /\ IntOf(m) = 11
                    /\ IsDigits(d) /\ Len(d) \in 1..2 /\ IntOf(d) \in 1..30
                 THEN Some(IntOf(d))
                 ELSE None

\* a Python float: not-a-number, or a value in hundredths
Float(v) == [nan |-> FALSE, v |-> v]
NaN == [nan |-> TRUE, v |-> 0]

\* digits [ "." digits ] with at most two decimals, in hundredths
Unsigned(s) ==
    LET dots == {i \in 1..Len(s) : s[i] = "."}
    IN  IF s # <<>> /\ IsDigits(s) THEN Some(Float(IntOf(s) * 100))
        ELSE IF Cardinality(dots) = 1
             THEN LET i  == CHOOSE k \in dots : TRUE
                      ip == SubSeq(s, 1, i - 1)
                      fp == SubSeq(s, i + 1, Len(s))
                  IN  IF /\ IsDigits(ip) /\ IsDigits(fp)
                         /\ Len(ip) + Len(fp) > 0 /\ Len(fp) <= 2
                      THEN Some(Float(IntOf(ip) * 100
                                      + IntOf(fp) * (IF Len(fp) = 1 THEN 10 ELSE 1)))
                      ELSE None
             ELSE None

\* float(hours_str): None stands for ValueError
float(hours_str) ==
    LET s == strip(hours_str)
    IN  IF s = <<"n", "a", "n">> THEN Some(NaN)
        ELSE IF s # <<>> /\ Head(s) = "-"
             THEN IF Unsigned(Tail(s)) = None THEN None
                  ELSE Some(Float(0 - Unsigned(Tail(s))[1].v))
        ELSE IF s # <<>> /\ Head(s) = "+" THEN Unsigned(Tail(s))
        ELSE Unsigned(s)

\* hours < 0 or hours > 24: every comparison with not-a-number is false
OutOfRange(hours) == ~hours.nan /\ (hours.v < 0 \/ hours.v > 24 * 100)

\* -------------------------------------------- add_entry.py: prompt_entry
\* the dates the first prompt can give: a blank line reads the clock, any
\* other line is parsed (None stands for ValueError)
PromptDate(date_str) ==
    IF strip(date_str) = <<>> THEN {Some(today) : today \in Dates}
    ELSE {strptime(strip(date_str))}

\* the tuple to insert, or the Outcome of the refusal (return None)
prompt_entry(entry_date, category_str, hours_str) ==
    LET category == Word(strip(category_str))
        hours    == float(strip(hours_str))
    IN  IF entry_date = None
        THEN [entry |-> None,
              refusal |-> Outcome("prompt_entry", "rejected", None, None, None, None)]
        ELSE IF category = ""
        THEN [entry |-> None,
              refusal |-> Outcome("prompt_entry", "rejected", None, None,
                                  Some(category), None)]
        ELSE IF hours = None
        THEN [entry |-> None,
              refusal |-> Outcome("prompt_entry", "rejected", None, None,
                                  Some(category), None)]
        ELSE IF OutOfRange(hours[1])
        THEN [entry |-> None,
              refusal |-> Outcome("prompt_entry", "rejected", None, None,
                                  Some(category), Some(hours[1].v))]
        ELSE [entry |-> Some([entry_date |-> entry_date[1], category |-> category,
                              hours |-> hours[1]]),
              refusal |-> None]

\* -------------------------------------------- add_entry.py: insert_entry
\* a failed connect and a statement the server refuses are both a mysql
\* Error, caught and printed; not-a-number cannot be sent as a FLOAT value
insert_entry(entry, remarks, connect_ok) ==
    IF ~connect_ok \/ entry.hours.nan
    THEN /\ result' = Outcome("insert_entry", "error", None, None, None, None)
         /\ UNCHANGED <<usage_log, auto_increment, deleted>>
    ELSE /\ usage_log' = InsertInto(usage_log, auto_increment, entry.entry_date,
                                    entry.category, entry.hours.v, remarks)
         /\ auto_increment' = auto_increment + 1
         /\ result' = Outcome("insert_entry", "ok", Some(auto_increment),
                              Some(entry.entry_date), Some(entry.category),
                              Some(entry.hours.v))
         /\ UNCHANGED deleted

\* entry = prompt_entry(); if entry: insert_entry(entry)
CliAddEntry ==
    /\ auto_increment <= MaxId
    /\ \E date_str \in DateInputs, category_str \in CategoryInputs,
          hours_str \in HoursInputs, remarks \in RemarksDomain :
         \E entry_date \in PromptDate(date_str) :
            LET p == prompt_entry(entry_date, category_str, hours_str)
            IN  IF p.entry = None
                THEN /\ result' = p.refusal
                     /\ UNCHANGED <<usage_log, auto_increment, deleted>>
                ELSE \E connect_ok \in BOOLEAN :
                        insert_entry(p.entry[1], remarks, connect_ok)

\* ------------------------------------------------ config.py, app.py: alerts
\* THRESHOLD_HOURS = 6.0, in hundredths of an hour
THRESHOLD_HOURS == 6 * 100

\* the test written as total_hours >= THRESHOLD_HOURS
HighUsageDaysAtLeast(daily_totals) ==
    SelectSeq(daily_totals, LAMBDA row : row.total_hours >= THRESHOLD_HOURS)

\* show_dashboard: daily_totals[daily_totals['total_hours'] > THRESHOLD_HOURS]
HighUsageDays(daily_totals) ==
    SelectSeq(daily_totals, LAMBDA row : row.total_hours > THRESHOLD_HOURS)

\* ---------------------------------------------------------------- analyze.py
\* THRESHOLD_HOURS = 6.0 of analyze.py, in hundredths of an hour
ANALYZE_THRESHOLD_HOURS == 6 * 100

\* SELECT entry_date, category, hours_spent, remarks ... ORDER BY entry_date:
\* the lists of tuples the query may return (rows of one date in any order)
fetch_records(table) ==
    {[i \in DOMAIN f |-> <<f[i].entry_date, f[i].category, f[i].hours_spent,
                           f[i].remarks>>] : f \in OrderBy(table, DateAscOrder)}

\* r[0].isoformat(): the characters "2025-11-0d"
isoformat(d) == DateLine(d)

\* defaultdict(float): d[key] += value
AddTo(dict, key, value) ==
    IF key \in DOMAIN dict THEN [dict EXCEPT ![key] = @ + value]
    ELSE [k \in DOMAIN dict \cup {key} |-> IF k = key THEN value ELSE dict[k]]

\* for r in rows: per_day[date_key] += float(r[2])
RECURSIVE per_day(_)
per_day(rows) ==
    IF rows = <<>> THEN [k \in {} |-> 0]
    ELSE LET r == rows[Len(rows)]
         IN  AddTo(per_day(SubSeq(rows, 1, Len(rows) - 1)), isoformat(r[1]), r[3])

\* the loop with per_category[r[1]] = float(r[2]), the last row's hours
RECURSIVE per_category_assign(_)
per_category_assign(rows) ==
    IF rows = <<>> THEN [k \in {} |-> 0]
    ELSE LET r == rows[Len(rows)]
             rest == per_category_assign(SubSeq(rows, 1, Len(rows) - 1))
         IN  [k \in DOMAIN rest \cup {r[2]} |-> IF k = r[2] THEN r[3] ELSE rest[k]]

\* for r in rows: per_category[r[1]] += float(r[2])
RECURSIVE per_category(_)
per_category(rows) ==
    IF rows = <<>> THEN [k \in {} |-> 0]
    ELSE LET r == rows[Len(rows)]
         IN  AddTo(per_category(SubSeq(rows, 1, Len(rows) - 1)), r[2], r[3])

\* sum(per_day.values())
RECURSIVE SumValues(_)
SumValues(dict) ==
    IF DOMAIN dict = {} THEN 0
    ELSE LET k == CHOOSE x \in DOMAIN dict : TRUE
         IN  dict[k] + SumValues([x \in DOMAIN dict \ {k} |-> dict[x]])

\* heavy_days = [d for d, v in per_day.items() if v > THRESHOLD_HOURS]
heavy_days(rows) ==
    {d \in DOMAIN per_day(rows) : per_day(rows)[d] > ANALYZE_THRESHOLD_HOURS}

\* what analyze(rows) reports: None after "No records found.", else the
\* totals it prints
analyze(rows) ==
    IF rows = <<>> THEN None
    ELSE Some([total_hours  |-> SumValues(per_day(rows)),
               mean         |-> Ratio(SumValues(per_day(rows)),
                                      Cardinality(DOMAIN per_day(rows))),
               per_day      |-> per_day(rows),
               per_category |-> per_category(rows),
               heavy_days   |-> heavy_days(rows)])

\* ------------------------------------------------------ the specification
\* initialize_database: CREATE TABLE IF NOT EXISTS usage_log, no rows yet
Init ==
    /\ usage_log = {}
    /\ auto_increment = 1
    /\ result = Outcome("initialize_database", "ok", None, None, None, None)
    /\ deleted = [id \in Ids |-> 0]
    /\ isolation = "REPEATABLE READ"
    /\ statistics = NoCall

\* the store of database.py, called with any arguments
Next ==
    \/ AddEntry /\ NoStatistics
    \/ DeleteEntry /\ NoStatistics

Spec == Init /\ [][Next]_vars

\* the store with its read calls
StoreNext ==
    \/ AddEntry /\ NoStatistics
    \/ DeleteEntry /\ NoStatistics
    \/ GetAllEntries /\ NoStatistics
    \/ GetDateRangeEntries /\ NoStatistics
    \/ GetDailyTotals /\ NoStatistics
    \/ GetCategoryTotals /\ NoStatistics
    \/ GetStatistics /\ NoStatistics

StoreSpec == Init /\ [][StoreNext]_vars

\* the programs that call it: the pages of app.py and the script add_entry.py
AppNext ==
    \/ ShowAddEntry /\ NoStatistics
    \/ ShowViewRecordsDelete /\ NoStatistics
    \/ CliAddEntry /\ NoStatistics

AppSpec == Init /\ [][AppNext]_vars

\* a get_statistics call, query by query, while another client adds and
\* deletes; the server has either isolation level
TxInit ==
    /\ usage_log = {}
    /\ auto_increment = 1
    /\ result = Outcome("initialize_database", "ok", None, None, None, None)
    /\ deleted = [id \in Ids |-> 0]
    /\ isolation \in IsolationLevels
    /\ statistics = NoCall

TxNext ==
    \/ OtherClientAdd
    \/ OtherClientDelete
    \/ StatisticsConnect
    \/ StatisticsTotal
    \/ StatisticsCount
    \/ StatisticsAvgDaily
    \/ StatisticsDateRange
    \/ StatisticsReturn

TxSpec == TxInit /\ [][TxNext]_vars

\* ------------------------------------------------- words for the claims
ValidHours(h) == 0 <= h /\ h <= 24 * 100
ValidCategory(c) == c # ""

\* the positions of a frame that hold entry_id id
Positions(df, id) == {i \in DOMAIN df : df[i].entry_id = id}

\* the sum of column total_hours of a frame
RECURSIVE TotalOf(_)
TotalOf(df) == IF df = <<>> THEN 0 ELSE Head(df).total_hours + TotalOf(Tail(df))

\* the hours of the entries of rows with entry_id 1..n, added up id by id
RECURSIVE HoursById(_, _)
HoursById(rows, n) ==
    IF n = 0 THEN 0
    ELSE HoursById(rows, n - 1)
         + (IF \E row \in rows : row.entry_id = n
            THEN (CHOOSE row \in rows : row.entry_id = n).hours_spent
            ELSE 0)

\* the date ranges a caller may ask for, also empty ones and ones that reach
\* beyond the stored dates
RangeDates == 0..(MaxDate + 1)

\* C1: a successful add_entry with valid inputs (hours in [0,24], a category
\* that is not empty, a date) puts the new entry, with the values passed,
\* exactly once into get_all_entries and into every get_date_range_entries
\* frame whose range contains its date, whatever the table held before.
C1_AddedEntryListedOnce ==
    [][(/\ result'.op = "add_entry" /\ result'.outcome = "ok"
        /\ ValidHours(result'.hours[1]) /\ ValidCategory(result'.category[1]))
       => LET id  == result'.id[1]
              all == get_all_entries(usage_log')
              Is(row) == /\ row.entry_id = id
                         /\ row.entry_date = result'.date[1]
                         /\ row.category = result'.category[1]
                         /\ row.hours_spent = result'.hours[1]
          IN  /\ Cardinality(Positions(all, id)) = 1
              /\ \A i \in Positions(all, id) : Is(all[i])
              /\ Len(all) = Cardinality(usage_log) + 1
              /\ \A start_date, end_date \in RangeDates :
                    Between(result'.date[1], start_date, end_date)
                    => \A df \in get_date_range_entries(usage_log', start_date, end_date) :
                          /\ Cardinality(Positions(df, id)) = 1
                          /\ \A i \in Positions(df, id) : Is(df[i])]_vars

C1_Witness ==
    /\ result.op = "add_entry" /\ result.outcome = "ok"
    /\ ValidHours(result.hours[1]) /\ ValidCategory(result.category[1])
    /\ Cardinality(usage_log) = 3
    /\ Cardinality(Positions(get_all_entries(usage_log), result.id[1])) = 1

\* C2: delete_entry on an id that was added and not yet deleted returns True
\* and the entry is in no later listing; a further delete_entry on that id
\* returns False ("Entry not found."), so True is returned at most once per id.
C2_DeleteTrueOnce ==
    [][/\ (result'.op = "delete_entry" /\ result'.outcome \in {"ok", "not_found"})
          => LET id == result'.id[1]
             IN  /\ (id < auto_increment /\ deleted[id] = 0) => result'.outcome = "ok"
                 /\ deleted[id] >= 1 => result'.outcome = "not_found"
                 /\ result'.outcome = "ok" => deleted'[id] = 1
       /\ \A id \in Ids :
            /\ deleted'[id] <= 1
            /\ deleted'[id] >= 1
               => /\ Positions(get_all_entries(usage_log'), id) = {}
                  /\ \A start_date, end_date \in RangeDates :
                       \A df \in get_date_range_entries(usage_log', start_date, end_date) :
                          Positions(df, id) = {}]_vars

C2_Witness ==
    /\ result.op = "delete_entry" /\ result.outcome = "not_found"
    /\ deleted[result.id[1]] = 1
    /\ usage_log # {}
    /\ auto_increment > MaxId

\* C3: an add with hours outside [0,24] or with an empty category is refused
\* before any statement is sent: it reports a failure and the table is as
\* it was.
C3_InvalidAddRefused ==
    [][(/\ result'.op \in {"add_entry", "insert_entry", "show_add_entry", "prompt_entry"}
        /\ \/ result'.hours # None /\ ~ValidHours(result'.hours[1])
           \/ result'.category # None /\ ~ValidCategory(result'.category[1]))
       => /\ result'.outcome = "rejected"
          /\ usage_log' = usage_log]_vars

\* C4: an add with hours = 0 and a category that is not empty succeeds and
\* the entry is stored, through add_entry, the prompt and the web form
\* (a lost connection aside).
C4_ZeroHoursAccepted ==
    [][(/\ result'.hours = Some(0)
        /\ result'.category # None /\ ValidCategory(result'.category[1]))
       => /\ result'.outcome = "ok"
          /\ \E row \in usage_log' :
                row.entry_id = result'.id[1] /\ row.hours_spent = 0]_vars

\* C5: get_daily_totals has one row for every date that has a stored entry
\* and none for any other date, the row's total is the sum of the hours of
\* the stored entries of that date, and the rows come by ascending date.
C5_DailyTotals ==
    LET df == get_daily_totals(usage_log)
    IN  /\ \A d \in Dates :
            Cardinality({i \in DOMAIN df : df[i].entry_date = d})
              = IF \E row \in usage_log : row.entry_date = d THEN 1 ELSE 0
        /\ \A i \in DOMAIN df :
            /\ df[i].entry_date \in Dates
            /\ df[i].total_hours
                  = HoursById({row \in usage_log : row.entry_date = df[i].entry_date},
                              MaxId + 1)
        /\ \A i, j \in DOMAIN df : i < j => df[i].entry_date < df[j].entry_date

C5_Witness ==
    /\ \E id \in Ids : deleted[id] = 1
    /\ Cardinality(usage_log) = 2
    /\ Len(get_daily_totals(usage_log)) = 1
    /\ \E a, b \in usage_log : a.hours_spent = 350 /\ b.hours_spent = 200
    /\ get_daily_totals(usage_log)[1].total_hours = 550

\* C6: the total_hours of get_daily_totals add up to total_hours of
\* get_statistics, and so do the total_hours of get_category_totals.
C6_TotalsAgree ==
    /\ TotalOf(get_daily_totals(usage_log)) = get_statistics(usage_log).total_hours
    /\ \A df \in get_category_totals(usage_log) :
          TotalOf(df) = get_statistics(usage_log).total_hours

C6_Witness ==
    /\ Len(get_daily_totals(usage_log)) = 2
    /\ \E df \in get_category_totals(usage_log) : Len(df) = 2
    /\ Cardinality(usage_log) = 3
    /\ get_statistics(usage_log).total_hours = 950

\* C7: avg_daily_hours of get_statistics is the mean of the daily totals,
\* total_hours divided by the number of dates that have entries (0 on an
\* empty table); entries (2025-11-01, 3.5), (2025-11-01, 2.0) and
\* (2025-11-02, 4.0) give total_hours 9.5 and avg_daily_hours 4.75.
C7_AvgOfDailyTotals ==
    LET stats == get_statistics(usage_log)
        df    == get_daily_totals(usage_log)
        days  == Cardinality({row.entry_date : row \in usage_log})
    IN  /\ stats.avg_daily_hours.den > 0
        /\ usage_log = {} => stats.avg_daily_hours.num = 0
        /\ usage_log # {}
           => /\ stats.avg_daily_hours.num * Len(df)
                    = TotalOf(df) * stats.avg_daily_hours.den
              /\ stats.avg_daily_hours.num * days
                    = stats.total_hours * stats.avg_daily_hours.den
        /\ {<<row.entry_date, row.hours_spent>> : row \in usage_log}
              = {<<1, 350>>, <<1, 200>>, <<2, 400>>} /\ Cardinality(usage_log) = 3
           => /\ stats.total_hours = 950
              /\ stats.avg_daily_hours.num = 475 * stats.avg_daily_hours.den

C7_Witness ==
    /\ {<<row.entry_date, row.hours_spent>> : row \in usage_log}
          = {<<1, 350>>, <<1, 200>>, <<2, 400>>}
    /\ Cardinality(usage_log) = 3
    /\ get_statistics(usage_log).avg_daily_hours = Ratio(950, 2)

\* C8: get_date_range_entries(start, end) holds the stored entries whose date d
\* has start <= d <= end, each once and no other row, by date not increasing;
\* get_all_entries holds every stored entry once, by date not increasing.
C8_ListingFilterAndOrder ==
    /\ \A start_date, end_date \in RangeDates :
          \A df \in get_date_range_entries(usage_log, start_date, end_date) :
             /\ \A row \in usage_log :
                   Cardinality({i \in DOMAIN df : df[i] = row})
                     = IF start_date <= row.entry_date /\ row.entry_date <= end_date
                       THEN 1 ELSE 0
             /\ \A i \in DOMAIN df : df[i] \in usage_log
             /\ \A i, j \in DOMAIN df : i < j => df[i].entry_date >= df[j].entry_date
    /\ \A start_date, end_date \in RangeDates :
          get_date_range_entries(usage_log, start_date, end_date) # {}
    /\ LET all == get_all_entries(usage_log)
       IN  /\ \A row \in usage_log : Cardinality({i \in DOMAIN all : all[i] = row}) = 1
           /\ \A i \in DOMAIN all : all[i] \in usage_log
           /\ \A i, j \in DOMAIN all : i < j => all[i].entry_date >= all[j].entry_date

C8_Witness ==
    /\ Cardinality({row \in usage_log : row.entry_date = 1}) = 2
    /\ Cardinality({row \in usage_log : row.entry_date = 2}) = 1
    /\ \E df \in get_date_range_entries(usage_log, 2, 2) : Len(df) = 1
    /\ Cardinality(get_date_range_entries(usage_log, 1, 2)) = 2

\* C9: every frame of get_category_totals has one row for every category
\* among the stored entries and none for any other, the row's total is the
\* sum of the hours of the stored entries of that category, and the rows come
\* by total not increasing.
C9_CategoryTotals ==
    \A df \in get_category_totals(usage_log) :
        /\ \A c \in Categories :
              Cardinality({i \in DOMAIN df : df[i].category = c})
                = IF \E row \in usage_log : row.category = c THEN 1 ELSE 0
        /\ \A i \in DOMAIN df :
              /\ df[i].category \in Categories
              /\ df[i].total_hours
                    = HoursById({row \in usage_log : row.category = df[i].category},
                                MaxId + 1)
        /\ \A i, j \in DOMAIN df : i < j => df[i].total_hours >= df[j].total_hours

C9_Witness ==
    /\ Cardinality({row \in usage_log : row.category = "Study"}) = 2
    /\ Cardinality({row \in usage_log : row.category = "Gaming"}) = 1
    /\ \E df \in get_category_totals(usage_log) :
          /\ Len(df) = 2
          /\ df[1].category = "Study" /\ df[1].total_hours = 550
          /\ df[2].category = "Gaming" /\ df[2].total_hours = 400

\* C10: delete_entry with an id that is not in the table (never given out, or
\* deleted before) answers False ("Entry not found."), raises nothing for
\* the id being absent, and leaves the table and the id counter as they were.
C10_DeleteAbsent ==
    [][(/\ result'.op = "delete_entry" /\ result'.id # None
        /\ \A row \in usage_log : row.entry_id # result'.id[1])
       => /\ result'.outcome = "not_found"
          /\ usage_log' = usage_log
          /\ auto_increment' = auto_increment
          /\ deleted' = deleted]_vars

C10_Witness ==
    /\ result.op = "delete_entry" /\ result.outcome = "not_found"
    /\ result.id[1] >= auto_increment
    /\ Cardinality(usage_log) >= 2

\* C11: every stored entry has hours in [0,24], a date and a category that
\* is not empty, whichever operations produced the table.
C11_StoredEntriesValid ==
    \A row \in usage_log :
        /\ ValidHours(row.hours_spent)
        /\ ValidCategory(row.category)
        /\ row.entry_date \in Dates

\* C12: no two stored entries share an entry_id; the id of a new entry is the
\* value of the AUTO_INCREMENT counter, above every id given out before, and
\* the id of a deleted entry is never given to a later entry.
C12_IdsUniqueNeverReused ==
    [][/\ \A a, b \in usage_log' : a.entry_id = b.entry_id => a = b
       /\ \A row \in usage_log' \ usage_log :
            /\ row.entry_id = auto_increment
            /\ auto_increment' > row.entry_id
            /\ deleted[row.entry_id] = 0
            /\ \A old \in usage_log : old.entry_id < row.entry_id
       /\ \A row \in usage_log' :
            /\ row.entry_id < auto_increment'
            /\ deleted'[row.entry_id] = 0]_vars

C12_Witness ==
    /\ result.op = "add_entry" /\ result.outcome = "ok"
    /\ result.id = Some(3)
    /\ deleted[2] = 1 /\ deleted[1] = 0
    /\ {row.entry_id : row \in usage_log} = {1, 3}

\* C14: a call that fails leaves the table and the id counter as they were,
\* and add_entry and delete_entry give the failure back as their
\* (False, message) result, also when it is the connection that fails: no
\* exception leaves them.
C14_FailureIsAResult ==
    [][result'.outcome \in {"raised", "error"}
       => /\ usage_log' = usage_log
          /\ auto_increment' = auto_increment
          /\ result'.op \in {"add_entry", "delete_entry"}
             => result'.outcome = "error"]_vars

\* C13: no step changes a stored entry: an entry of the table is in the table
\* after the step with the same id, date, category, hours and remarks, unless
\* the step is the delete_entry of its id; add_entry adds one entry under a
\* new id and removes none; a read call changes nothing.
C13_NeverUpdatedInPlace ==
    [][/\ \A row \in usage_log :
            \/ row \in usage_log'
            \/ /\ result'.op = "delete_entry" /\ result'.outcome = "ok"
               /\ result'.id = Some(row.entry_id)
               /\ \A other \in usage_log' : other.entry_id # row.entry_id
       /\ \A row \in usage_log' \ usage_log :
            /\ result'.op = "add_entry" /\ result'.outcome = "ok"
            /\ result'.id = Some(row.entry_id)
            /\ \A old \in usage_log : old.entry_id # row.entry_id
       /\ result'.op = "add_entry" /\ result'.outcome = "ok"
          => /\ usage_log \subseteq usage_log'
             /\ Cardinality(usage_log') = Cardinality(usage_log) + 1
       /\ result'.op = "delete_entry"
          => usage_log' = {row \in usage_log : Some(row.entry_id) # result'.id}
       /\ result'.op \notin {"add_entry", "delete_entry"}
          => usage_log' = usage_log /\ auto_increment' = auto_increment]_vars

C13_Witness ==
    /\ result.op = "get_statistics" /\ result.outcome = "ok"
    /\ deleted[2] = 1
    /\ {row.entry_id : row \in usage_log} = {1, 3}
    /\ \E a, b \in usage_log : a.entry_date = b.entry_date /\ a.category = b.category
                               /\ a.entry_id # b.entry_id

\* C17: on an empty table get_statistics gives total_hours 0, total_entries 0,
\* avg_daily_hours 0 and NULL first_date and last_date, and the dashboard
\* shows no days tracked; on a table that is not empty total_entries is the
\* number of stored entries and first_date and last_date are the least and
\* the greatest stored date.
C17_StatisticsEmptyAndRange ==
    LET stats == get_statistics(usage_log)
        ids   == {id \in Ids : \E row \in usage_log : row.entry_id = id}
    IN  /\ usage_log = {}
           => /\ stats.total_hours = 0
              /\ stats.total_entries = 0
              /\ stats.avg_daily_hours.num = 0 /\ stats.avg_daily_hours.den > 0
              /\ stats.first_date = None /\ stats.last_date = None
              /\ DaysTracked(stats) = None
        /\ usage_log # {}
           => /\ stats.total_entries = Cardinality(ids)
              /\ stats.first_date # None /\ stats.last_date # None
              /\ \E row \in usage_log : row.entry_date = stats.first_date[1]
              /\ \E row \in usage_log : row.entry_date = stats.last_date[1]
              /\ \A row \in usage_log :
                    /\ stats.first_date[1] <= row.entry_date
                    /\ row.entry_date <= stats.last_date[1]
              /\ DaysTracked(stats) # None

C17_Witness ==
    /\ usage_log = {}
    /\ auto_increment > MaxId
    /\ \A id \in 1..MaxId : deleted[id] = 1
    /\ get_statistics(usage_log).total_entries = 0

\* the days whose stored hours, added up id by id, are above the threshold
DaysOver(table) ==
    {d \in Dates :
        HoursById({row \in table : row.entry_date = d}, MaxId + 1) > THRESHOLD_HOURS}

\* C16: the threshold refuses no add: an add_entry that reaches the server
\* succeeds and stores the entry whatever the total of its day becomes (also
\* above the threshold or above 24 hours); and the dashboard and the report of
\* analyze both mark exactly the days whose total is strictly greater than
\* THRESHOLD_HOURS (6.0).
C16_ThresholdAlertsOnly ==
    LET high == HighUsageDays(get_daily_totals(usage_log))
    IN  /\ (result.op = "add_entry" /\ result.outcome # "raised")
           => /\ result.outcome = "ok"
              /\ \E row \in usage_log :
                    /\ row.entry_id = result.id[1]
                    /\ row.entry_date = result.date[1]
                    /\ row.hours_spent = result.hours[1]
        /\ {high[i].entry_date : i \in DOMAIN high} = DaysOver(usage_log)
        /\ \A i \in DOMAIN high : high[i].total_hours > 6 * 100
        /\ \A rows \in fetch_records(usage_log) :
              rows # <<>>
              => analyze(rows)[1].heavy_days = {isoformat(d) : d \in DaysOver(usage_log)}

C16_Witness ==
    /\ result.op = "add_entry" /\ result.outcome = "ok" /\ result.hours = Some(400)
    /\ \E d \in Dates :
          /\ result.date = Some(d)
          /\ {row.hours_spent : row \in {x \in usage_log : x.entry_date = d}} = {350, 400}
          /\ Cardinality({x \in usage_log : x.entry_date = d}) = 2
          /\ DaysOver(usage_log) = {d}
          /\ \E e \in Dates : e # d /\ \E x \in usage_log : x.entry_date = e
          /\ \A rows \in fetch_records(usage_log) :
                analyze(rows)[1].heavy_days = {isoformat(d)}

\* the report of analyze on rows says what the three aggregate queries say
\* on table
ReportAgrees(rows, table) ==
    LET report == analyze(rows)
        stats  == get_statistics(table)
        daily  == get_daily_totals(table)
    IN  /\ report # None
        /\ report[1].total_hours = stats.total_hours
        /\ report[1].mean.den > 0 /\ stats.avg_daily_hours.den > 0
        /\ report[1].mean.num * stats.avg_daily_hours.den
              = stats.avg_daily_hours.num * report[1].mean.den
        /\ DOMAIN report[1].per_day = {isoformat(daily[i].entry_date) : i \in DOMAIN daily}
        /\ \A i \in DOMAIN daily :
              report[1].per_day[isoformat(daily[i].entry_date)] = daily[i].total_hours
        /\ \A df \in get_category_totals(table) :
              /\ DOMAIN report[1].per_category = {df[i].category : i \in DOMAIN df}
              /\ \A i \in DOMAIN df :
                    report[1].per_category[df[i].category] = df[i].total_hours

DescribesATable(ret) ==
    /\ ret.total_entries = 0
       => /\ ret.total_hours = 0
          /\ ret.avg_daily_hours.num = 0
          /\ ret.first_date = None /\ ret.last_date = None
    /\ ret.total_entries > 0
       => /\ ret.first_date # None /\ ret.last_date # None
          /\ ret.first_date[1] <= ret.last_date[1]
          /\ ret.total_entries = 1 => ret.first_date = ret.last_date
          /\ ret.first_date = ret.last_date
             => ret.avg_daily_hours.num = ret.total_hours * ret.avg_daily_hours.den

\* C15 as stated: whatever another client adds or deletes between the four
\* queries of a get_statistics call, the values the call returns describe
\* one and the same table (so total_entries = 0 never comes with
\* total_hours > 0).
C15_OneStoreState ==
    statistics.pc = "date_range" => DescribesATable(Returned(statistics))

\* C15 amended: when the server gives the connection REPEATABLE READ (the
\* default of InnoDB), the values a get_statistics call returns are those of
\* one table, the table at the first query of the call, whatever another
\* client adds or deletes between the queries; under READ COMMITTED there
\* is no such table in general.
C15_OneStoreStateUnderSnapshot ==
    (statistics.pc = "date_range" /\ isolation = "REPEATABLE READ")
    => /\ statistics.snapshot # None
       /\ Returned(statistics) = get_statistics(statistics.snapshot[1])
       /\ DescribesATable(Returned(statistics))

C15_Witness ==
    /\ statistics.pc = "date_range"
    /\ isolation = "REPEATABLE READ"
    /\ usage_log = {}
    /\ deleted[1] = 1
    /\ Returned(statistics).total_entries = 1
    /\ Returned(statistics).total_hours = 350
    /\ Returned(statistics) # get_statistics(usage_log)

=============================================================================
